---- MODULE Spec2Model ----
(***************************************************************************)
(* Model of jempe/sitemap_scanner: the sitemap resolution of               *)
(* sitemap_scanner/scanner.go (GetSitemap, getSitemapURLsFromRobots,       *)
(* processSitemap) and the cached request handler of                       *)
(* cmd/get_sitemap/main.go (handleGetSitemap).                             *)
(*                                                                         *)
(* Strings are sequences of tokens: a token is one character of the        *)
(* string (":", "/", " ", a line break) or a run of letters, digits and    *)
(* dots that no operation of the program splits ("https", "a.example").    *)
(* Concatenation is \o, the empty string is << >>.                         *)
(***************************************************************************)
EXTENDS Integers, Sequences, FiniteSets, TLC

(***************************************************************************)
(* Bounds of the model.                                                    *)
(***************************************************************************)
\* the number of lines of a robots.txt body
MaxRobotsLines == 2
\* the recursion depth of processSitemap after which a resolution is known
\* to recurse for ever (the sites hold fewer index documents than this)
MaxDepth == 4
\* the number of workers that serve requests at once
NumWorkers == 2
\* the number of requests the server receives
MaxRequests == 3

(***************************************************************************)
(* Strings.                                                                *)
(***************************************************************************)
NL == "\n"
\* unicode.IsSpace, as strings.TrimSpace and the regexp class \s use it
SpaceTokens == {" ", NL, "\r", "\t"}
IsSpace(t) == t \in SpaceTokens
\* an ASCII control character (net/url: stringContainsCTLByte)
CTLTokens == {NL, "\r", "\t"}
\* a token that is no letter, digit, "+", "-" or "."
PunctTokens == {":", "/", " ", NL, "\r", "\t", "*"}

Min(S) == CHOOSE x \in S : \A y \in S : x <= y
Max(S) == CHOOSE x \in S : \A y \in S : x >= y

\* the index of the first token of s at or after i that is in T (FirstIn) or
\* not in T (FirstNotIn); Len(s) + 1 when there is none
FirstIn(s, i, T) ==
    LET at == {j \in i..Len(s) : s[j] \in T}
    IN IF at = {} THEN Len(s) + 1 ELSE Min(at)
FirstNotIn(s, i, T) ==
    LET at == {j \in i..Len(s) : s[j] \notin T}
    IN IF at = {} THEN Len(s) + 1 ELSE Min(at)

HasPrefix(s, p) == Len(s) >= Len(p) /\ SubSeq(s, 1, Len(p)) = p
Contains(s, t) == \E i \in 1..Len(s) : s[i] = t

\* strings.TrimSpace
RECURSIVE TrimLeft(_)
TrimLeft(s) == IF s # << >> /\ IsSpace(s[1]) THEN TrimLeft(Tail(s)) ELSE s
RECURSIVE TrimRight(_)
TrimRight(s) ==
    IF s # << >> /\ IsSpace(s[Len(s)]) THEN TrimRight(SubSeq(s, 1, Len(s) - 1)) ELSE s
TrimSpace(s) == TrimRight(TrimLeft(s))

(***************************************************************************)
(* net/url.Parse, as GetSitemap calls it (viaRequest = false), on strings  *)
(* without "?", "#", "%", "@" and "[": every word token starts with a      *)
(* letter, and no token is a digit.                                        *)
(***************************************************************************)
ParseError == [err |-> TRUE, Scheme |-> << >>, Host |-> << >>, Path |-> << >>]

\* getScheme: the scheme is what precedes the first ":", when only letters,
\* digits, "+", "-" and "." precede it; a leading ":" is an error
getScheme(rawURL) ==
    LET i == FirstIn(rawURL, 1, PunctTokens)
    IN IF i <= Len(rawURL) /\ rawURL[i] = ":"
       THEN IF i = 1
            THEN [err |-> TRUE, scheme |-> << >>, rest |-> << >>]
            ELSE [err |-> FALSE, scheme |-> SubSeq(rawURL, 1, i - 1),
                  rest |-> SubSeq(rawURL, i + 1, Len(rawURL))]
       ELSE [err |-> FALSE, scheme |-> << >>, rest |-> rawURL]

\* parseHost: what follows the last ":" must be digits (there are none), and
\* a space is no character of a host
parseHost(authority) ==
    LET colons == {i \in 1..Len(authority) : authority[i] = ":"}
    IN IF colons # {} /\ Max(colons) < Len(authority)
       THEN [err |-> TRUE, host |-> << >>]
       ELSE IF Contains(authority, " ")
       THEN [err |-> TRUE, host |-> << >>]
       ELSE [err |-> FALSE, host |-> authority]

Parse(rawURL) ==
    IF \E i \in 1..Len(rawURL) : rawURL[i] \in CTLTokens THEN ParseError
    ELSE
    LET gs == getScheme(rawURL)
        rest == gs.rest
        rooted == HasPrefix(rest, <<"/">>)
    IN IF gs.err THEN ParseError
       ELSE IF ~rooted /\ gs.scheme # << >>
       THEN \* a rootless path after a scheme is opaque
            [err |-> FALSE, Scheme |-> gs.scheme, Host |-> << >>, Path |-> << >>]
       ELSE IF ~rooted
               /\ Contains(SubSeq(rest, 1, FirstIn(rest, 1, {"/"}) - 1), ":")
       THEN ParseError
       ELSE IF (gs.scheme # << >> \/ ~HasPrefix(rest, <<"/", "/", "/">>))
               /\ HasPrefix(rest, <<"/", "/">>)
       THEN LET r2 == SubSeq(rest, 3, Len(rest))
                cut == FirstIn(r2, 1, {"/"})
                h == parseHost(SubSeq(r2, 1, cut - 1))
            IN IF h.err THEN ParseError
               ELSE [err |-> FALSE, Scheme |-> gs.scheme, Host |-> h.host,
                     Path |-> SubSeq(r2, cut, Len(r2))]
       ELSE [err |-> FALSE, Scheme |-> gs.scheme, Host |-> << >>, Path |-> rest]

(***************************************************************************)
(* The remote world: a function from URL strings to the response a GET of  *)
(* that URL gets. status 0 is a transport error (no response); bodyErr is  *)
(* a failure of io.ReadAll. root is the root element of an XML body        *)
(* ("sitemapindex" with its <sitemap><loc> values in locs, "urlset" with   *)
(* its <url><loc> values in urls), "garbage" for a body that is no XML,    *)
(* "text" for a plain text body (text).                                    *)
(***************************************************************************)
Response(status, bodyErr, root, text, locs, urls) ==
    [status |-> status, bodyErr |-> bodyErr, root |-> root, text |-> text,
     locs |-> locs, urls |-> urls]
TransportError == Response(0, FALSE, "", << >>, << >>, << >>)
NotFound == Response(404, FALSE, "text", << >>, << >>, << >>)
ReadError == Response(200, TRUE, "", << >>, << >>, << >>)
Text(text) == Response(200, FALSE, "text", text, << >>, << >>)
Garbage == Response(200, FALSE, "garbage", << >>, << >>, << >>)
Index(locs) == Response(200, FALSE, "sitemapindex", << >>, locs, << >>)
Leaf(urls) == Response(200, FALSE, "urlset", << >>, << >>, urls)

\* client.Get: a URL no server answers is a transport error
Get(w, url) == IF url \in DOMAIN w THEN w[url] ELSE TransportError

\* the fetch of lines 343-356 and 379-392: the body, or an error
FetchBody(w, url) ==
    LET resp == Get(w, url)
    IN IF resp.status = 0 THEN [err |-> TRUE, body |-> resp]
       ELSE IF resp.status # 200 THEN [err |-> TRUE, body |-> resp]
       ELSE IF resp.bodyErr THEN [err |-> TRUE, body |-> resp]
       ELSE [err |-> FALSE, body |-> resp]

\* xml.Unmarshal into SitemapIndex: the root element must be sitemapindex
UnmarshalIndex(body) ==
    IF body.root = "sitemapindex"
    THEN [err |-> FALSE, Sitemaps |-> body.locs]
    ELSE [err |-> TRUE, Sitemaps |-> << >>]

\* xml.Unmarshal into Sitemap: the root element must be urlset; no element
\* of a document fills SiteMapIndexURL
\* an Unmarshal that takes a body with any root for a sitemap
UnmarshalSitemapAny(body) ==
    [err |-> FALSE,
     URLs |-> [i \in 1..Len(body.urls) |->
                 [SiteMapIndexURL |-> << >>, Location |-> body.urls[i]]]]
UnmarshalSitemap(body) ==
    IF body.root = "urlset"
    THEN [err |-> FALSE,
          URLs |-> [i \in 1..Len(body.urls) |->
                      [SiteMapIndexURL |-> << >>, Location |-> body.urls[i]]]]
    ELSE [err |-> TRUE, URLs |-> << >>]

(***************************************************************************)
(* getSitemapURLsFromRobots.                                               *)
(***************************************************************************)
\* (?i)sitemap: the spellings of the directive that occur in the bodies
SitemapTokens == {"Sitemap:", "sitemap:", "SITEMAP:"}

\* regexp (?i)sitemap:\s*(.+), FindAllStringSubmatch: the captures of the
\* successive leftmost matches at or after token from. \s* is greedy and
\* spans line breaks; (.+) runs to the end of its line and needs one
\* character, which \s* gives back when only white space follows.
RECURSIVE FindAllStringSubmatch(_, _)
FindAllStringSubmatch(body, from) ==
    LET j == FirstIn(body, from, SitemapTokens)
        k == FirstNotIn(body, j + 1, SpaceTokens)
        back == {p \in (j + 1)..Len(body) : body[p] # NL}
    IN IF j > Len(body) THEN << >>
       ELSE IF k <= Len(body)
       THEN LET e == FirstIn(body, k, {NL}) - 1
            IN <<SubSeq(body, k, e)>> \o FindAllStringSubmatch(body, e + 1)
       ELSE IF back = {} THEN FindAllStringSubmatch(body, j + 1)
       ELSE <<SubSeq(body, Max(back), Max(back))>>
            \o FindAllStringSubmatch(body, Max(back) + 1)

getSitemapURLsFromRobots(w, baseURL) ==
    LET robotsURL == baseURL \o <<"/", "robots.txt">>
        f == FetchBody(w, robotsURL)
        matches == FindAllStringSubmatch(f.body.text, 1)
    IN IF f.err THEN [err |-> TRUE, sitemapURLs |-> << >>]
       ELSE [err |-> FALSE,
             sitemapURLs |-> [i \in 1..Len(matches) |-> TrimSpace(matches[i])]]

(***************************************************************************)
(* processSitemap. The result carries, beside the returned (urls, err),    *)
(* the URLs fetched, in order, and div: the recursion went deeper than     *)
(* MaxDepth, which only an index that leads back to itself does, and the   *)
(* call never returns.                                                     *)
(***************************************************************************)
\* line 396: the body is an index when it parses as one with an entry
IsIndex(sitemapIndex) == ~sitemapIndex.err /\ Len(sitemapIndex.Sitemaps) > 0

\* lines 414-416: every entry gets the URL of the document it was parsed from
TagURLsFromSecond(URLs, sitemapURL) ==
    [i \in 1..Len(URLs) |->
        IF i = 1 THEN URLs[i] ELSE [URLs[i] EXCEPT !.SiteMapIndexURL = sitemapURL]]
TagURLs(URLs, sitemapURL) ==
    [i \in 1..Len(URLs) |-> [URLs[i] EXCEPT !.SiteMapIndexURL = sitemapURL]]

\* lines 400-403: a child's entries are appended when the child returned no
\* error
ChildURLs(r) == IF ~r.err THEN r.urls ELSE << >>

RECURSIVE processSitemap(_, _, _)
RECURSIVE processChildren(_, _, _, _)
processSitemap(w, sitemapURL, depth) ==
    LET f == FetchBody(w, sitemapURL)
        sitemapIndex == UnmarshalIndex(f.body)
        sitemap == UnmarshalSitemap(f.body)
        failed == [err |-> TRUE, urls |-> << >>, fetched |-> <<sitemapURL>>,
                   div |-> FALSE]
    IN IF depth > MaxDepth
       THEN [err |-> FALSE, urls |-> << >>, fetched |-> << >>, div |-> TRUE]
       ELSE IF f.err THEN failed
       ELSE IF IsIndex(sitemapIndex)
       THEN LET c == processChildren(w, sitemapIndex.Sitemaps, 1, depth + 1)
            IN [err |-> FALSE, urls |-> c.urls,
                fetched |-> <<sitemapURL>> \o c.fetched, div |-> c.div]
       ELSE IF sitemap.err THEN failed
       ELSE [err |-> FALSE, urls |-> TagURLs(sitemap.URLs, sitemapURL),
             fetched |-> <<sitemapURL>>, div |-> FALSE]

\* a loop that does not descend below the children of a candidate
processChildrenBounded(w, Sitemaps, i, depth) ==
    IF i > Len(Sitemaps) \/ depth > 2
    THEN [urls |-> << >>, fetched |-> << >>, div |-> FALSE]
    ELSE LET r == processSitemap(w, Sitemaps[i], depth)
             rest == processChildren(w, Sitemaps, i + 1, depth)
         IN IF r.div THEN [urls |-> << >>, fetched |-> r.fetched, div |-> TRUE]
            ELSE [urls |-> ChildURLs(r) \o rest.urls,
                  fetched |-> r.fetched \o rest.fetched, div |-> rest.div]
\* the loop of lines 399-404 from its i-th entry on
processChildren(w, Sitemaps, i, depth) ==
    IF i > Len(Sitemaps)
    THEN [urls |-> << >>, fetched |-> << >>, div |-> FALSE]
    ELSE LET r == processSitemap(w, Sitemaps[i], depth)
             rest == processChildren(w, Sitemaps, i + 1, depth)
         IN IF r.div THEN [urls |-> << >>, fetched |-> r.fetched, div |-> TRUE]
            ELSE [urls |-> ChildURLs(r) \o rest.urls,
                  fetched |-> r.fetched \o rest.fetched, div |-> rest.div]

(***************************************************************************)
(* GetSitemap. The result carries, beside the returned (SitemapResult,     *)
(* err), the base URL, the candidate list, the URLs fetched and div.       *)
(***************************************************************************)
\* lines 293-298: the default scheme, and fmt.Sprintf("%s://%s", parsedURL.Scheme, parsedURL.Host)
BaseURL(parsedURL) ==
    LET scheme == IF parsedURL.Scheme = << >> THEN <<"https">> ELSE parsedURL.Scheme
    IN scheme \o <<":", "/", "/">> \o parsedURL.Host

FallbackURLs(baseURL) ==
    << baseURL \o <<"/", "sitemap.xml">>,
       baseURL \o <<"/", "sitemap_index.xml">>,
       baseURL \o <<"/", "sitemaps.xml">> >>

\* lines 301-309: the robots.txt list, or the common locations
Candidates(robots, baseURL) ==
    IF robots.err \/ Len(robots.sitemapURLs) = 0
    THEN FallbackURLs(baseURL)
    ELSE robots.sitemapURLs

\* line 317: a candidate counts when it returned no error and an entry
KeepCandidateNoError(r) == ~r.err
KeepCandidate(r) == ~r.err /\ Len(r.urls) > 0

\* lines 289-291 and 302: the error GetSitemap returns is the parse error;
\* the error of the robots.txt fetch is not returned
FunctionErrorOnRobots(parsedURL, robots) == parsedURL.err \/ robots.err
FunctionError(parsedURL, robots) == parsedURL.err

\* lines 328-330
ResultError(allURLs) == IF Len(allURLs) = 0 THEN "No sitemap data found" ELSE ""

\* the loop of lines 315-321 from its i-th candidate on
RECURSIVE ProcessCandidates(_, _, _)
\* a loop that gives up at the first candidate that does not count
ProcessCandidatesAbort(w, sitemapURLs, i) ==
    IF i > Len(sitemapURLs)
    THEN [allURLs |-> << >>, validSitemaps |-> << >>, fetched |-> << >>,
          div |-> FALSE]
    ELSE LET r == processSitemap(w, sitemapURLs[i], 1)
             keep == KeepCandidate(r)
             rest == ProcessCandidates(w, sitemapURLs,
                                       IF keep THEN i + 1 ELSE Len(sitemapURLs) + 1)
         IN IF r.div
            THEN [allURLs |-> << >>, validSitemaps |-> << >>,
                  fetched |-> r.fetched, div |-> TRUE]
            ELSE [allURLs |-> (IF keep THEN r.urls ELSE << >>) \o rest.allURLs,
                  validSitemaps |->
                      (IF keep THEN <<sitemapURLs[i]>> ELSE << >>) \o rest.validSitemaps,
                  fetched |-> r.fetched \o rest.fetched,
                  div |-> rest.div]
\* a loop that skips a candidate it has already processed
ProcessCandidatesOnce(w, sitemapURLs, i) ==
    IF i > Len(sitemapURLs)
    THEN [allURLs |-> << >>, validSitemaps |-> << >>, fetched |-> << >>,
          div |-> FALSE]
    ELSE LET seen == \E j \in 1..(i - 1) : sitemapURLs[j] = sitemapURLs[i]
             r == processSitemap(w, sitemapURLs[i], 1)
             rest == ProcessCandidates(w, sitemapURLs, i + 1)
             keep == KeepCandidate(r) /\ ~seen
         IN IF r.div
            THEN [allURLs |-> << >>, validSitemaps |-> << >>,
                  fetched |-> r.fetched, div |-> TRUE]
            ELSE [allURLs |-> (IF keep THEN r.urls ELSE << >>) \o rest.allURLs,
                  validSitemaps |->
                      (IF keep THEN <<sitemapURLs[i]>> ELSE << >>) \o rest.validSitemaps,
                  fetched |-> r.fetched \o rest.fetched,
                  div |-> rest.div]
ProcessCandidates(w, sitemapURLs, i) ==
    IF i > Len(sitemapURLs)
    THEN [allURLs |-> << >>, validSitemaps |-> << >>, fetched |-> << >>,
          div |-> FALSE]
    ELSE LET r == processSitemap(w, sitemapURLs[i], 1)
             rest == ProcessCandidates(w, sitemapURLs, i + 1)
             keep == KeepCandidate(r)
         IN IF r.div
            THEN [allURLs |-> << >>, validSitemaps |-> << >>,
                  fetched |-> r.fetched, div |-> TRUE]
            ELSE [allURLs |-> (IF keep THEN r.urls ELSE << >>) \o rest.allURLs,
                  validSitemaps |->
                      (IF keep THEN <<sitemapURLs[i]>> ELSE << >>) \o rest.validSitemaps,
                  fetched |-> r.fetched \o rest.fetched,
                  div |-> rest.div]

NoResult ==
    [err |-> FALSE, URLs |-> << >>, Sitemaps |-> << >>, Error |-> "",
     baseURL |-> << >>, candidates |-> << >>, fetched |-> << >>, div |-> FALSE]

GetSitemap(w, targetURL) ==
    LET parsedURL == Parse(targetURL)
        baseURL == BaseURL(parsedURL)
        robots == getSitemapURLsFromRobots(w, baseURL)
        sitemapURLs == Candidates(robots, baseURL)
        all == ProcessCandidates(w, sitemapURLs, 1)
    IN IF FunctionError(parsedURL, robots) THEN [NoResult EXCEPT !.err = TRUE]
       ELSE [err |-> FALSE,
             URLs |-> all.allURLs,
             Sitemaps |-> all.validSitemaps,
             Error |-> ResultError(all.allURLs),
             baseURL |-> baseURL,
             candidates |-> sitemapURLs,
             fetched |-> <<baseURL \o <<"/", "robots.txt">> >> \o all.fetched,
             div |-> all.div]

(***************************************************************************)
(* The inputs: target URL strings, and remote worlds made of a robots.txt  *)
(* response and the sitemap documents of one site, https://a.example.      *)
(***************************************************************************)
Authority == <<"https", ":", "/", "/", "a.example">>
S(path) == Authority \o <<"/", path>>

FullCustom == S("custom.xml")
FullSitemap == S("sitemap.xml")
BareHost == <<"a.example">>
BareHostPath == <<"a.example", "/", "page">>
NotAURL == <<"not", " ", "a", " ", "url">>
Targets ==
    { FullCustom, FullSitemap, Authority, BareHost, BareHostPath, NotAURL,
      <<"/", "/", "a.example", "/", "page">>,
      <<":", "/", "/", "a.example">>,
      <<"https", ":", "/", "/", "a", " ", "b">> }

\* the lines of a robots.txt body
RobotsLines ==
    { <<"Sitemap:", " ">> \o S("custom.xml"),
      <<"sitemap:">> \o S("sitemap_index.xml"),
      <<"Sitemap:", " ">> \o S("dead.xml"),
      <<"User-agent:", " ", "*">>,
      <<"Sitemap:">>,
      <<"Sitemap:", " ">> }

RECURSIVE JoinLines(_)
JoinLines(lines) ==
    IF lines = << >> THEN << >> ELSE Head(lines) \o <<NL>> \o JoinLines(Tail(lines))

RobotsBodies ==
    {JoinLines(ls) : ls \in UNION {[1..n -> RobotsLines] : n \in 0..MaxRobotsLines}}

RobotsResponses ==
    {TransportError, NotFound, ReadError} \cup {Text(b) : b \in RobotsBodies}

ThreePages == <<"q1", "q2", "q3">>
\* a site with documents of every kind
SiteRich ==
    (S("sitemap.xml") :> Leaf(<<"p1", "p2">>))
    @@ (S("sitemap_index.xml") :> Index(<<S("idx2.xml"), S("missing.xml")>>))
    @@ (S("idx2.xml") :> Index(<<S("leaf3.xml")>>))
    @@ (S("leaf3.xml") :> Leaf(ThreePages))
    @@ (S("missing.xml") :> NotFound)
    @@ (S("sitemaps.xml") :> Garbage)
    @@ (S("custom.xml") :> Leaf(<<"p1">>))
    @@ (S("dead.xml") :> Index(<<S("gone1.xml"), S("gone2.xml")>>))
\* a site whose only document is at a path of its own
SiteCustom ==
    (S("custom.xml") :> Leaf(<<"c1", "c2">>))
    @@ (S("sitemap.xml") :> NotFound)
    @@ (S("sitemap_index.xml") :> NotFound)
    @@ (S("sitemaps.xml") :> NotFound)
\* a site whose index names documents nobody serves
SiteDead ==
    (S("sitemap.xml") :> Index(<<S("gone1.xml"), S("gone2.xml")>>))
    @@ (S("sitemap_index.xml") :> ReadError)
    @@ (S("dead.xml") :> Index(<<S("gone1.xml")>>))
\* root index -> index -> leaf with three entries
SiteTwoLevel ==
    (S("sitemap_index.xml") :> Index(<<S("idx2.xml")>>))
    @@ (S("idx2.xml") :> Index(<<S("leaf3.xml")>>))
    @@ (S("leaf3.xml") :> Leaf(ThreePages))
    @@ (S("custom.xml") :> Leaf(<< >>))
\* an index that names itself
SiteLoop ==
    (S("sitemap.xml") :> Leaf(<<"p1">>))
    @@ (S("dead.xml") :> Index(<<S("dead.xml")>>))
    @@ (S("custom.xml") :> Leaf(<<"c1">>))

Sites == {SiteRich, SiteCustom, SiteDead, SiteTwoLevel, SiteLoop}

RobotsURL == S("robots.txt")
Webs == {(RobotsURL :> r) @@ site : r \in RobotsResponses, site \in Sites}

(***************************************************************************)
(* State.                                                                  *)
(***************************************************************************)
VARIABLES
    web,        \* the remote world
    target,     \* the argument of the GetSitemap call under study
    scan,       \* "call", "returned" or "diverged"
    result,     \* what the call returned
    cache,      \* sitemapCache: a function from the keys present to their data
    pc,         \* per worker: where its handler stands
    req,        \* per worker: the request it handles
    data,       \* per worker: sitemapData, between GetSitemap and Set
    last,       \* the response written last, its request, and how it came about
    served,     \* the number of requests received so far
    prev,       \* the last request answered 200 without refresh_cache, while
                \* nothing but the request received right after it has run
    invoked,    \* per key: the GetSitemap calls made for it since it was last
                \* removed from the cache
    cfg,        \* the configuration main parsed from the flags
    mpc,        \* where serve stands
    gpc,        \* where the goroutine serve started stands
    caught,     \* the signal the goroutine received, "" before
    ret         \* what serve returned, "none" before

scanVars == <<target, scan, result>>
serverVars == <<cache, pc, req, data, last, served, prev, invoked>>
mainVars == <<cfg, mpc, gpc, caught, ret>>
vars ==
    <<web, target, scan, result, cache, pc, req, data, last, served, prev, invoked,
      cfg, mpc, gpc, caught, ret>>

(***************************************************************************)
(* The server: handleGetSitemap on NumWorkers concurrent workers over one  *)
(* cache. A handler is cut where it reads or writes the cache and where it *)
(* calls GetSitemap; each cache operation is atomic (go-cache locks).      *)
(***************************************************************************)
Workers == 1..NumWorkers

BadURL == <<":", "/", "/", "a.example">>
\* the url values of requests; << >> is the empty string
RequestURLs == {FullSitemap, Authority, BadURL, << >>}
NoRequest == [Method |-> "", JSON |-> FALSE, URL |-> << >>, RefreshCache |-> FALSE]
\* a request of another method, one whose body is no JSON (nothing of it is
\* decoded), and the POST requests with a JSON body
Requests ==
    { [NoRequest EXCEPT !.Method = "GET"], [NoRequest EXCEPT !.Method = "POST"] }
    \cup [Method : {"POST"}, JSON : {TRUE}, URL : RequestURLs,
          RefreshCache : BOOLEAN]

\* the worlds the server meets: a site with sitemaps, one without, and one
\* whose robots.txt names an index that names itself
RobotsDead == Text(JoinLines(<< <<"Sitemap:", " ">> \o S("dead.xml") >>))
ServerWebs ==
    { (RobotsURL :> NotFound) @@ SiteRich,
      (RobotsURL :> NotFound) @@ SiteCustom,
      (RobotsURL :> RobotsDead) @@ SiteLoop }

\* the SitemapResult of a GetSitemap result
SitemapData(r) == [URLs |-> r.URLs, Sitemaps |-> r.Sitemaps, Error |-> r.Error]
NoData == [URLs |-> << >>, Sitemaps |-> << >>, Error |-> ""]

NoPrev == [ok |-> FALSE, URL |-> << >>, body |-> NoData, calls |-> 0, follower |-> 0]
NoResponse ==
    [req |-> NoRequest, status |-> 0, body |-> NoData,
     hit |-> FALSE, calls |-> 0, after |-> NoPrev]

\* go-cache
CacheFound(c, k) == k \in DOMAIN c
\* a Delete that empties the cache
CacheDeleteAll(c, k) == << >>
\* a Delete that goes by the authority of the key
CacheDeleteAuthority(c, k) ==
    [x \in {y \in DOMAIN c : BaseURL(Parse(y)) # BaseURL(Parse(k))} |-> c[x]]
CacheDelete(c, k) == [x \in DOMAIN c \ {k} |-> c[x]]
CacheSet(c, k, v) == [x \in DOMAIN c \cup {k} |-> IF x = k THEN v ELSE c[x]]

\* line 166: sitemapCache.Set(req.URL, sitemapData, cache.DefaultExpiration)
StoreSetSkipped(c, k, v) == c
\* a handler that stores a result only when it has no Error
StoreSetUnlessError(c, k, v) == IF v.Error # "" THEN c ELSE CacheSet(c, k, v)
StoreSet(c, k, v) == CacheSet(c, k, v)

ServerIdle ==
    /\ cache = << >>
    /\ pc = [w \in Workers |-> "idle"]
    /\ req = [w \in Workers |-> NoRequest]
    /\ data = [w \in Workers |-> NoData]
    /\ last = NoResponse
    /\ served = 0
    /\ prev = NoPrev
    /\ invoked = [k \in RequestURLs |-> 0]

\* lines 24-28, 52-53: no credentials are configured
NoAuth == [username |-> "", password |-> ""]
\* main has parsed its flags, serve listens and its goroutine waits for a
\* signal
MainIdle ==
    /\ cfg = NoAuth
    /\ mpc = "listen"
    /\ gpc = "quit"
    /\ caught = ""
    /\ ret = "none"

\* prev after a step of worker w that does not end its request
PrevStep(w) == IF prev.ok /\ prev.follower = w THEN prev ELSE NoPrev
\* prev after worker w has answered status with body, having called
\* GetSitemap calls times
PrevDone(w, status, body, calls) ==
    IF status = 200 /\ ~req[w].RefreshCache
    THEN [ok |-> TRUE, URL |-> req[w].URL, body |-> body, calls |-> calls,
          follower |-> 0]
    ELSE NoPrev

\* apiResponse: worker w answers and its handler returns
Respond(w, status, body, hit, calls) ==
    /\ last' = [req |-> req[w], status |-> status, body |-> body,
                hit |-> hit, calls |-> calls, after |-> PrevStep(w)]
    /\ prev' = PrevDone(w, status, body, calls)
    /\ pc' = [pc EXCEPT ![w] = "idle"]
    /\ req' = [req EXCEPT ![w] = NoRequest]
    /\ data' = [data EXCEPT ![w] = NoData]

\* lines 103-129: the status a request is refused with, 0 when it is not
Refusal(r) ==
    IF r.Method # "POST" THEN 405
    ELSE IF ~r.JSON THEN 400
    ELSE IF r.URL = << >> THEN 400
    ELSE 0

\* lines 101-131: a worker takes a request and validates it
Receive(w, r) ==
    /\ pc[w] = "idle"
    /\ served < MaxRequests
    /\ served' = served + 1
    /\ IF Refusal(r) # 0
       THEN /\ last' = [NoResponse EXCEPT !.req = r, !.status = Refusal(r)]
            /\ prev' = NoPrev
            /\ UNCHANGED <<pc, req>>
       ELSE /\ req' = [req EXCEPT ![w] = r]
            /\ pc' = [pc EXCEPT ![w] = IF r.RefreshCache THEN "delete" ELSE "get"]
            /\ prev' = IF prev.ok /\ prev.follower = 0
                       THEN [prev EXCEPT !.follower = w] ELSE NoPrev
            /\ UNCHANGED last
    /\ UNCHANGED <<web, cache, data, invoked>>
    /\ UNCHANGED scanVars
    /\ UNCHANGED mainVars

\* lines 131-137: sitemapCache.Delete
Refresh(w) ==
    /\ pc[w] = "delete"
    /\ cache' = CacheDelete(cache, req[w].URL)
    /\ pc' = [pc EXCEPT ![w] = "get"]
    /\ prev' = PrevStep(w)
    /\ invoked' = [invoked EXCEPT ![req[w].URL] = 0]
    /\ UNCHANGED <<web, req, data, last, served>>
    /\ UNCHANGED scanVars
    /\ UNCHANGED mainVars

\* lines 140-148: sitemapCache.Get finds the key
CacheHit(w) ==
    /\ pc[w] = "get"
    /\ CacheFound(cache, req[w].URL)
    /\ Respond(w, 200, cache[req[w].URL], TRUE, 0)
    /\ UNCHANGED <<web, cache, served, invoked>>
    /\ UNCHANGED scanVars
    /\ UNCHANGED mainVars

\* lines 140, 150-153: sitemapCache.Get does not find the key
CacheMiss(w) ==
    /\ pc[w] = "get"
    /\ ~CacheFound(cache, req[w].URL)
    /\ pc' = [pc EXCEPT ![w] = "fetch"]
    /\ prev' = PrevStep(w)
    /\ UNCHANGED <<web, cache, req, data, last, served, invoked>>
    /\ UNCHANGED scanVars
    /\ UNCHANGED mainVars

\* lines 155-163: GetSitemap returns
Resolve(w) ==
    /\ pc[w] = "fetch"
    /\ LET r == GetSitemap(web, req[w].URL)
       IN /\ ~r.div
          /\ IF r.err
             THEN Respond(w, 500, NoData, FALSE, 1)
             ELSE /\ data' = [data EXCEPT ![w] = SitemapData(r)]
                  /\ pc' = [pc EXCEPT ![w] = "set"]
                  /\ prev' = PrevStep(w)
                  /\ UNCHANGED <<req, last>>
    /\ invoked' = [invoked EXCEPT ![req[w].URL] = @ + 1]
    /\ UNCHANGED <<web, cache, served>>
    /\ UNCHANGED scanVars
    /\ UNCHANGED mainVars

\* line 155: GetSitemap never returns
Hang(w) ==
    /\ pc[w] = "fetch"
    /\ GetSitemap(web, req[w].URL).div
    /\ pc' = [pc EXCEPT ![w] = "hung"]
    /\ prev' = NoPrev
    /\ invoked' = [invoked EXCEPT ![req[w].URL] = @ + 1]
    /\ UNCHANGED <<web, cache, req, data, last, served>>
    /\ UNCHANGED scanVars
    /\ UNCHANGED mainVars

\* lines 165-171: sitemapCache.Set and the answer
Store(w) ==
    /\ pc[w] = "set"
    /\ cache' = StoreSet(cache, req[w].URL, data[w])
    /\ Respond(w, 200, data[w], FALSE, 1)
    /\ UNCHANGED <<web, served, invoked>>
    /\ UNCHANGED scanVars
    /\ UNCHANGED mainVars

\* line 44: a record's 24 hours have passed
Expire(k) ==
    /\ CacheFound(cache, k)
    /\ cache' = CacheDelete(cache, k)
    /\ prev' = NoPrev
    /\ invoked' = [invoked EXCEPT ![k] = 0]
    /\ UNCHANGED <<web, pc, req, data, last, served>>
    /\ UNCHANGED scanVars
    /\ UNCHANGED mainVars

\* the remote site changes
WebChange(w2) ==
    /\ w2 # web
    /\ web' = w2
    /\ UNCHANGED serverVars
    /\ UNCHANGED scanVars
    /\ UNCHANGED mainVars

Init ==
    /\ web \in ServerWebs
    /\ target = << >>
    /\ scan = "none"
    /\ result = NoResult
    /\ ServerIdle
    /\ MainIdle

Next ==
    \/ \E w \in Workers, r \in Requests : Receive(w, r)
    \/ \E w \in Workers : Refresh(w)
    \/ \E w \in Workers : CacheHit(w)
    \/ \E w \in Workers : CacheMiss(w)
    \/ \E w \in Workers : Resolve(w)
    \/ \E w \in Workers : Hang(w)
    \/ \E w \in Workers : Store(w)
    \/ \E k \in RequestURLs : Expire(k)
    \/ \E w2 \in ServerWebs : WebChange(w2)

Spec == Init /\ [][Next]_vars

(***************************************************************************)
(* SpecSeq: the server when requests arrive one after the other: a request *)
(* is received only when no handler is under way.                          *)
(***************************************************************************)
NoneUnderWay == \A w \in Workers : pc[w] \in {"idle", "hung"}

ReceiveSeq(w, r) == NoneUnderWay /\ Receive(w, r)

NextSeq ==
    \/ \E w \in Workers, r \in Requests : ReceiveSeq(w, r)
    \/ \E w \in Workers : Refresh(w)
    \/ \E w \in Workers : CacheHit(w)
    \/ \E w \in Workers : CacheMiss(w)
    \/ \E w \in Workers : Resolve(w)
    \/ \E w \in Workers : Hang(w)
    \/ \E w \in Workers : Store(w)
    \/ \E k \in RequestURLs : Expire(k)
    \/ \E w2 \in ServerWebs : WebChange(w2)

SpecSeq == Init /\ [][NextSeq]_vars

(***************************************************************************)
(* SpecAuth: the server under every configuration of the -username and    *)
(* -password flags, taking requests that carry Basic credentials or none. *)
(***************************************************************************)
\* lines 52-53: the values of the two flags, "" being the default
Configs == [username : {"", "admin"}, password : {"", "secret"}]

\* r.BasicAuth() of a request: ok is false without a Basic Authorization
\* header
NoCredentials == [ok |-> FALSE, username |-> "", password |-> ""]
Credentials ==
    {NoCredentials}
    \cup [ok : {TRUE}, username : {"admin", "root"}, password : {"secret", ""}]

\* a request with its credentials
WithCredentials(r, c) ==
    [Method |-> r.Method, JSON |-> r.JSON, URL |-> r.URL,
     RefreshCache |-> r.RefreshCache, Credentials |-> c]
AuthRequests ==
    {WithCredentials(r, c) :
        r \in { [NoRequest EXCEPT !.Method = "GET"],
                [Method |-> "POST", JSON |-> TRUE, URL |-> FullSitemap,
                 RefreshCache |-> FALSE],
                [Method |-> "POST", JSON |-> TRUE, URL |-> FullSitemap,
                 RefreshCache |-> TRUE],
                [Method |-> "POST", JSON |-> TRUE, URL |-> BadURL,
                 RefreshCache |-> FALSE] },
        c \in Credentials}

\* line 56: the handler is wrapped when both flags are set
AuthEnabledEither(c) == c.username # "" \/ c.password # ""
AuthEnabled(c) == c.username # "" /\ c.password # ""

\* lines 76-87: the request has credentials and both compare equal
Authorized(c, r) ==
    /\ r.Credentials.ok
    /\ r.Credentials.username = c.username
    /\ r.Credentials.password = c.password

\* lines 73-99: the wrapped handler: 401, or the handler itself
basicAuth(w, r) ==
    IF Authorized(cfg, r)
    THEN Receive(w, r)
    ELSE /\ pc[w] = "idle"
         /\ served < MaxRequests
         /\ served' = served + 1
         /\ last' = [NoResponse EXCEPT !.req = r, !.status = 401]
         /\ prev' = NoPrev
         /\ UNCHANGED <<web, cache, pc, req, data, invoked>>
         /\ UNCHANGED scanVars
         /\ UNCHANGED mainVars

\* lines 55-62: what main registered for /get-sitemap takes the request
Handle(w, r) ==
    /\ NoneUnderWay
    /\ IF AuthEnabled(cfg) THEN basicAuth(w, r) ELSE Receive(w, r)

InitAuth ==
    /\ web \in ServerWebs
    /\ target = << >>
    /\ scan = "none"
    /\ result = NoResult
    /\ ServerIdle
    /\ cfg \in Configs
    /\ mpc = "listen"
    /\ gpc = "quit"
    /\ caught = ""
    /\ ret = "none"

NextAuth ==
    \/ \E w \in Workers, r \in AuthRequests : Handle(w, r)
    \/ \E w \in Workers : Refresh(w)
    \/ \E w \in Workers : CacheHit(w)
    \/ \E w \in Workers : CacheMiss(w)
    \/ \E w \in Workers : Resolve(w)
    \/ \E w \in Workers : Hang(w)
    \/ \E w \in Workers : Store(w)

SpecAuth == InitAuth /\ [][NextAuth]_vars


(***************************************************************************)
(* SpecServe: serve and the goroutine it starts, over the handlers. serve  *)
(* stands in srv.ListenAndServe ("listen"), at its receive from             *)
(* shutdownError ("receive"), or has returned. The goroutine stands at its  *)
(* receive from quit ("quit"), in srv.Shutdown ("shutdown"), at the send of *)
(* Shutdown's error ("send err"), at wg.Wait ("wait"), at the send of nil   *)
(* ("send nil"), or is done. shutdownError is unbuffered: a send and the    *)
(* receive are one step, taken when both sides stand at it.                *)
(***************************************************************************)
Signals == {"SIGINT", "SIGTERM"}

\* line 220: the server takes a request while it listens and Shutdown has
\* not been called
Accept(w, r) ==
    /\ mpc = "listen"
    /\ gpc = "quit"
    /\ Receive(w, r)

\* lines 220-223: ListenAndServe fails with an error of its own
ListenFails ==
    /\ mpc = "listen"
    /\ gpc = "quit"
    /\ mpc' = "returned"
    /\ ret' = "error"
    /\ UNCHANGED <<web, cfg, gpc, caught>>
    /\ UNCHANGED serverVars
    /\ UNCHANGED scanVars

\* lines 193-204: the signal arrives and the goroutine calls srv.Shutdown
Signal(s) ==
    /\ gpc = "quit"
    /\ mpc = "listen"
    /\ caught' = s
    /\ gpc' = "shutdown"
    /\ UNCHANGED <<web, cfg, mpc, ret>>
    /\ UNCHANGED serverVars
    /\ UNCHANGED scanVars

\* lines 220-221: Shutdown has been called, ListenAndServe returns
\* http.ErrServerClosed
ServerClosed ==
    /\ mpc = "listen"
    /\ gpc # "quit"
    /\ mpc' = "receive"
    /\ UNCHANGED <<web, cfg, gpc, caught, ret>>
    /\ UNCHANGED serverVars
    /\ UNCHANGED scanVars

\* line 204: no handler is under way, Shutdown returns nil
ShutdownDone ==
    /\ gpc = "shutdown"
    /\ \A w \in Workers : pc[w] = "idle"
    /\ gpc' = "wait"
    /\ UNCHANGED <<web, cfg, mpc, caught, ret>>
    /\ UNCHANGED serverVars
    /\ UNCHANGED scanVars

\* lines 201-207: the 30 seconds pass with a handler under way, Shutdown
\* returns the error of its context
ShutdownFails ==
    /\ gpc = "shutdown"
    /\ \E w \in Workers : pc[w] # "idle"
    /\ gpc' = "send err"
    /\ UNCHANGED <<web, cfg, mpc, caught, ret>>
    /\ UNCHANGED serverVars
    /\ UNCHANGED scanVars

\* lines 206 and 225-228: the error is sent and received, serve returns it;
\* the goroutine goes on
SendErr ==
    /\ gpc = "send err"
    /\ mpc = "receive"
    /\ gpc' = "wait"
    /\ mpc' = "returned"
    /\ ret' = "error"
    /\ UNCHANGED <<web, cfg, caught>>
    /\ UNCHANGED serverVars
    /\ UNCHANGED scanVars

\* line 213: wg.Wait returns; nothing in the program adds to wg
Wait ==
    /\ gpc = "wait"
    /\ gpc' = "send nil"
    /\ UNCHANGED <<web, cfg, mpc, caught, ret>>
    /\ UNCHANGED serverVars
    /\ UNCHANGED scanVars

\* lines 214 and 225-235: nil is sent and received, serve returns nil
SendNil ==
    /\ gpc = "send nil"
    /\ mpc = "receive"
    /\ gpc' = "done"
    /\ mpc' = "returned"
    /\ ret' = "nil"
    /\ UNCHANGED <<web, cfg, caught>>
    /\ UNCHANGED serverVars
    /\ UNCHANGED scanVars

\* the steps of serve and of its goroutine
ServeStep ==
    \/ ListenFails
    \/ \E s \in Signals : Signal(s)
    \/ ServerClosed
    \/ ShutdownDone
    \/ ShutdownFails
    \/ SendErr
    \/ Wait
    \/ SendNil

NextServe ==
    \/ \E w \in Workers, r \in Requests : Accept(w, r)
    \/ \E w \in Workers : Refresh(w)
    \/ \E w \in Workers : CacheHit(w)
    \/ \E w \in Workers : CacheMiss(w)
    \/ \E w \in Workers : Resolve(w)
    \/ \E w \in Workers : Hang(w)
    \/ \E w \in Workers : Store(w)
    \/ ServeStep

\* the Go scheduler lets serve and its goroutine run
SpecServe == Init /\ [][NextServe]_vars /\ WF_vars(ServeStep)

(***************************************************************************)
(* SpecScan: one call of GetSitemap on any target in any world.            *)
(***************************************************************************)
InitScan ==
    /\ web \in Webs
    /\ target \in Targets
    /\ scan = "call"
    /\ result = NoResult
    /\ ServerIdle
    /\ MainIdle

\* the call returns
ScanReturn ==
    /\ scan = "call"
    /\ ~GetSitemap(web, target).div
    /\ result' = GetSitemap(web, target)
    /\ scan' = "returned"
    /\ UNCHANGED <<web, target>>
    /\ UNCHANGED serverVars
    /\ UNCHANGED mainVars

\* the call recurses without end
ScanDiverge ==
    /\ scan = "call"
    /\ GetSitemap(web, target).div
    /\ scan' = "diverged"
    /\ UNCHANGED <<web, target, result>>
    /\ UNCHANGED serverVars
    /\ UNCHANGED mainVars

NextScan == ScanReturn \/ ScanDiverge

SpecScan == InitScan /\ [][NextScan]_vars

(***************************************************************************)
(* Properties of the server.                                               *)
(***************************************************************************)
\* the last response ends a request for the URL of the request answered
\* right before it, both without refresh_cache, and nothing ran in between
SecondOfTwo ==
    /\ last.after.ok
    /\ last.status # 0
    /\ ~last.req.RefreshCache
    /\ last.req.URL = last.after.URL

\* C1: of two requests for one URL handled one after the other, both without
\* refresh_cache, with no expiry between them and the first answered 200, the
\* second is answered from the cache with the body of the first and calls
\* GetSitemap not at all: the two call it at most once, the first one's call.
C1_SecondRequestFromCache ==
    SecondOfTwo =>
        /\ last.status = 200
        /\ last.hit
        /\ last.calls = 0
        /\ last.body = last.after.body
        /\ last.after.calls + last.calls <= 1

\* the first of the two requests resolved the URL, the second did not
C1_Witness == SecondOfTwo /\ last.after.calls = 1 /\ last.calls = 0 /\ last.hit

\* C2: a request with refresh_cache = true that is answered 200 is never
\* answered from the cache: it made its own GetSitemap call.
C2_RefreshNeverFromCache ==
    (last.status = 200 /\ last.req.RefreshCache) => (~last.hit /\ last.calls = 1)

\* C13: a resolution that finds no entries gives the handler a result with
\* Error set, which it stores like any other; a request for the same URL
\* without refresh_cache that follows it before the record expires is
\* answered 200 from the cache with that same error result and makes no
\* GetSitemap call, whatever the remote site serves by then.
C13_ErrorResultCached ==
    /\ \A w \in Workers :
          pc[w] = "set" => (data[w].Error # "" <=> data[w].URLs = << >>)
    /\ (SecondOfTwo /\ last.after.body.Error # "") =>
          /\ last.status = 200
          /\ last.hit
          /\ last.calls = 0
          /\ last.body = last.after.body
          /\ last.body.URLs = << >>

\* the first request resolved to an error result and stored it; the second
\* got it from the cache although the site has a sitemap with entries now
C13_Witness ==
    /\ SecondOfTwo
    /\ last.after.calls = 1
    /\ last.after.body.Error # ""
    /\ last.hit
    /\ last.body.Error # ""
    /\ ~GetSitemap(web, last.req.URL).div
    /\ GetSitemap(web, last.req.URL).URLs # << >>

\* the request a step has taken in: the one answered at once, or the one
\* the worker that started now handles
Arrived ==
    IF pc' = pc THEN last'.req
    ELSE req'[CHOOSE w \in Workers : pc'[w] # pc[w]]
\* both flags are set
BothConfigured == cfg.username # "" /\ cfg.password # ""
\* the request carries Basic credentials equal to both flags
CredentialsMatch(r) ==
    r.Credentials = [ok |-> TRUE, username |-> cfg.username,
                     password |-> cfg.password]

\* C14: Basic authentication is enforced exactly when username and password
\* are both configured. When it is, a request whose credentials are missing
\* or differ from either value is answered 401 and neither the cache nor any
\* handler changes and no GetSitemap call is made; a handler only ever runs
\* for a request with matching credentials. When it is not, no request is
\* answered 401.
C14_BasicAuth ==
    [][/\ served' # served =>
            IF BothConfigured /\ ~CredentialsMatch(Arrived)
            THEN /\ last'.status = 401
                 /\ last'.req = Arrived
                 /\ UNCHANGED <<cache, pc, req, data, invoked>>
            ELSE \/ pc' # pc
                 \/ last'.status \in {400, 405} /\ last'.req = Arrived
       /\ last'.status = 401 => BothConfigured
       /\ \A w \in Workers :
            (BothConfigured /\ pc'[w] # "idle") => CredentialsMatch(req'[w])
      ]_vars

\* with a record in the cache, a request with the right username and a wrong
\* password has been answered 401
C14_Witness ==
    /\ BothConfigured
    /\ last.status = 401
    /\ last.req.Credentials.ok
    /\ last.req.Credentials.username = cfg.username
    /\ last.req.Credentials.password # cfg.password
    /\ cache # << >>

\* C16: for every key, GetSitemap is called at most once between two
\* consecutive removals of the key from the cache (by a refresh or by expiry),
\* whatever the interleaving of the handlers.
C16_OneCallPerKey == \A k \in RequestURLs : invoked[k] <= 1

\* worker w takes a step on a request for a url GetSitemap returns an error
\* for
StepOfRejected(w) ==
    /\ pc'[w] # pc[w]
    /\ GetSitemap(web, IF pc[w] = "idle" THEN req'[w].URL ELSE req[w].URL).err

\* C19: a request that is answered with a status other than 200 leaves the
\* cache as it was: a request refused with 405 or 400 is answered before any
\* cache operation, and a request answered 500 is one GetSitemap returns an
\* error for, none of whose steps, its Delete under refresh_cache included,
\* stores or removes a record.
C19_FailuresLeaveCache ==
    [][/\ (served' # served /\ pc' = pc) =>
            (last'.status \in {400, 405} /\ cache' = cache)
       /\ \A w \in Workers :
            /\ StepOfRejected(w) => cache' = cache
            /\ (pc[w] = "fetch" /\ pc'[w] = "idle") =>
                  (last'.status = 500 /\ StepOfRejected(w))
            /\ (pc'[w] # pc[w] /\ pc'[w] = "idle" /\ pc[w] # "fetch") =>
                  last'.status = 200
      ]_vars

\* with a record in the cache, a request with refresh_cache was answered 500
C19_Witness ==
    /\ last.status = 500
    /\ last.req.RefreshCache
    /\ cache # << >>
    /\ NoneUnderWay

\* two url strings that GetSitemap resolves against one authority
SameAuthority(k1, k2) ==
    /\ ~Parse(k1).err
    /\ ~Parse(k2).err
    /\ BaseURL(Parse(k1)) = BaseURL(Parse(k2))

\* C12: the cache is keyed by the url string of the request as given: a
\* handler's Delete removes the record of its own string and leaves every
\* other record, also one of the same authority, as it was; its lookup
\* misses exactly when no record is stored under its own string; and a hit
\* returns the record stored under that string.
C12_ExactKey ==
    [][\A w \in Workers :
          /\ (pc[w] = "delete" /\ pc'[w] = "get") =>
                /\ req[w].URL \notin DOMAIN cache'
                /\ \A k \in DOMAIN cache \ {req[w].URL} :
                      k \in DOMAIN cache' /\ cache'[k] = cache[k]
          /\ (pc[w] = "get" /\ pc'[w] # "get") =>
                /\ pc'[w] = "fetch" <=> req[w].URL \notin DOMAIN cache
                /\ pc'[w] # "fetch" =>
                      (last'.hit /\ last'.body = cache[req[w].URL])
      ]_vars

\* a request with refresh_cache has removed its own record and missed,
\* while the record of another string of the same authority is in place
C12_Witness ==
    \E w \in Workers :
        /\ pc[w] = "fetch"
        /\ req[w].RefreshCache
        /\ \E k \in DOMAIN cache :
              k # req[w].URL /\ SameAuthority(k, req[w].URL)

\* C20: after a signal, neither side of shutdownError is left at it with no
\* partner: serve, the only receiver, does not return while the goroutine
\* has a value to send, and it waits at its receive only while a send is
\* still to come; it returns the error when Shutdown failed and nil, after
\* wg.Wait, otherwise.
C20_ShutdownHandshake ==
    /\ mpc = "returned" => gpc \notin {"send err", "send nil"}
    /\ mpc = "receive" => gpc \in {"shutdown", "send err", "wait", "send nil"}
    /\ (mpc = "returned" /\ caught # "") =>
          (ret = "nil" <=> gpc = "done")

(***************************************************************************)
(* Properties of GetSitemap.                                               *)
(***************************************************************************)
Returned == scan = "returned"
Range(f) == {f[i] : i \in DOMAIN f}

\* the lines of a text
RECURSIVE SplitLines(_)
SplitLines(text) ==
    LET n == FirstIn(text, 1, {NL})
    IN IF text = << >> THEN << >>
       ELSE <<SubSeq(text, 1, n - 1)>> \o SplitLines(SubSeq(text, n + 1, Len(text)))

\* the sitemap URL a robots.txt line lists: what follows its sitemap:
\* directive, trimmed; << >> when the line has no directive or no value
LineValue(line) ==
    LET p == FirstIn(line, 1, SitemapTokens)
    IN IF p > Len(line) THEN << >> ELSE TrimSpace(SubSeq(line, p + 1, Len(line)))

\* the sitemap URLs a robots.txt body lists, line by line, in file order
RECURSIVE ListedIn(_)
ListedIn(lines) ==
    IF lines = << >> THEN << >>
    ELSE (IF LineValue(Head(lines)) = << >> THEN << >> ELSE <<LineValue(Head(lines))>>)
         \o ListedIn(Tail(lines))

\* the robots.txt of the authority the returned call worked on
RobotsFetch == FetchBody(web, result.baseURL \o <<"/", "robots.txt">>)
RobotsListed == ListedIn(SplitLines(RobotsFetch.body.text))

\* C3: when robots.txt is fetched with status 200 and lists N >= 1 sitemap
\* URLs, the candidate list is exactly those URLs, in file order, duplicates
\* kept (and so not the fallback list).
C3_CandidatesAreListed ==
    (Returned /\ ~result.err /\ ~RobotsFetch.err /\ Len(RobotsListed) >= 1)
        => result.candidates = RobotsListed

\* C4: when the robots.txt fetch fails or its body lists no sitemap, the
\* candidate list is exactly the three fallback URLs of the authority.
C4_FallbackCandidates ==
    (Returned /\ ~result.err /\ (RobotsFetch.err \/ Len(RobotsListed) = 0))
        => result.candidates = FallbackURLs(result.baseURL)

\* C5: GetSitemap returns an error exactly when the target cannot be parsed,
\* and then no result; otherwise, whatever fetch or parse failed, it returns
\* a result whose Error is set exactly when it has no entries.
C5_OnlyParseErrors ==
    Returned =>
        /\ result.err <=> Parse(target).err
        /\ result.err => SitemapData(result) = NoData
        /\ ~result.err => (result.Error # "" <=> Len(result.URLs) = 0)

\* a call whose robots.txt and candidates all failed, and which returned a
\* result with Error set and no error
C5_Witness ==
    /\ Returned
    /\ ~result.err
    /\ RobotsFetch.err
    /\ \A i \in 1..Len(result.candidates) : FetchBody(web, result.candidates[i]).err
    /\ result.Error # ""

\* the host a target without scheme names: what precedes its first "/",
\* after a leading "//"
TargetHost(t) ==
    LET u == IF HasPrefix(t, <<"/", "/">>) THEN SubSeq(t, 3, Len(t)) ELSE t
    IN SubSeq(u, 1, FirstIn(u, 1, {"/"}) - 1)
\* a URL without scheme: no ":" and no space, and a host
LacksScheme(t) == ~Contains(t, ":") /\ ~Contains(t, " ") /\ TargetHost(t) # << >>

\* no scheme and no host can be parsed from the target, and it is no URL
\* that only lacks its scheme
NoSchemeNoHost(t) ==
    \/ Parse(t).err
    \/ Parse(t).Scheme = << >> /\ Parse(t).Host = << >> /\ ~LacksScheme(t)

\* C6: for a target from which no scheme and no host can be parsed,
\* GetSitemap returns an error and no result, and fetches nothing.
C6_InputError ==
    (Returned /\ NoSchemeNoHost(target)) =>
        (result.err /\ SitemapData(result) = NoData /\ result.fetched = << >>)

\* C7: for a target URL without scheme, the authority is https://<host of
\* the target>, and robots.txt and the fallback URLs are derived from it.
C7_DefaultScheme ==
    (Returned /\ LacksScheme(target)) =>
        LET authority == <<"https", ":", "/", "/">> \o TargetHost(target)
        IN /\ ~result.err
           /\ result.baseURL = authority
           /\ result.fetched[1] = authority \o <<"/", "robots.txt">>
           /\ (RobotsFetch.err => result.candidates = FallbackURLs(authority))

\* the target names a document: it has a scheme, a host and a path
NamesDocument(t) ==
    /\ ~Parse(t).err
    /\ Parse(t).Scheme # << >>
    /\ Parse(t).Host # << >>
    /\ Parse(t).Path \notin {<< >>, <<"/">>}

\* C8: the url of a request is the sitemap that is fetched: when the target
\* names a document, that document is fetched, and when it is a sitemap with
\* entries, they are in the result.
C8_TargetIsFetched ==
    (Returned /\ NamesDocument(target)) =>
        /\ target \in Range(result.fetched)
        /\ LET f == FetchBody(web, target)
           IN (~f.err /\ f.body.root = "urlset" /\ f.body.urls # << >>) =>
                 \A j \in 1..Len(f.body.urls) :
                    \E i \in 1..Len(result.URLs) :
                        result.URLs[i].Location = f.body.urls[j]

\* url is a leaf sitemap that is served and has loc among its entries
LeafWith(url, loc) ==
    LET f == FetchBody(web, url)
    IN ~f.err /\ f.body.root = "urlset" /\ loc \in Range(f.body.urls)

\* root is an index of one index of one leaf
TwoLevel(root, leaf) ==
    LET r == Get(web, root)
        m == Get(web, r.locs[1])
    IN /\ r = Index(r.locs) /\ Len(r.locs) = 1
       /\ m = Index(m.locs) /\ m.locs = <<leaf>>
       /\ Get(web, leaf) = Leaf(Get(web, leaf).urls)

\* C9: every entry of a result is tagged with the URL of the leaf sitemap it
\* was parsed from; when the one candidate is an index of an index of a leaf
\* with three entries, the result is those three entries, tagged with the
\* leaf's URL.
C9_TaggedWithLeaf ==
    Returned =>
        /\ \A i \in 1..Len(result.URLs) :
              LeafWith(result.URLs[i].SiteMapIndexURL, result.URLs[i].Location)
        /\ \A leaf \in DOMAIN web :
              (Len(result.candidates) = 1 /\ TwoLevel(result.candidates[1], leaf)
                 /\ Len(Get(web, leaf).urls) = 3)
              => result.URLs = [i \in 1..3 |->
                                  [SiteMapIndexURL |-> leaf,
                                   Location |-> Get(web, leaf).urls[i]]]

\* the two-level case: robots.txt names the root index alone
C9_Witness ==
    /\ Returned
    /\ Len(result.candidates) = 1
    /\ TwoLevel(result.candidates[1], S("leaf3.xml"))
    /\ Len(result.URLs) = 3
    /\ \A i \in 1..3 : result.URLs[i].SiteMapIndexURL = S("leaf3.xml")

Unreachable(url) == FetchBody(web, url).err
\* url is a served index document none of whose children is reachable
DeadIndex(url) ==
    LET f == FetchBody(web, url)
    IN /\ ~f.err
       /\ f.body.root = "sitemapindex"
       /\ f.body.locs # << >>
       /\ \A j \in 1..Len(f.body.locs) : Unreachable(f.body.locs[j])
OnlyDeadIndexes ==
    /\ Returned
    /\ ~result.err
    /\ \E i \in 1..Len(result.candidates) : DeadIndex(result.candidates[i])
    /\ \A i \in 1..Len(result.candidates) :
          Unreachable(result.candidates[i]) \/ DeadIndex(result.candidates[i])

\* C10: when the only reachable candidates are index documents whose
\* children are all unreachable, the result has Error set, no entries and no
\* sitemap URLs, and no error is returned.
C10_DeadIndex ==
    OnlyDeadIndexes =>
        /\ result.Error # ""
        /\ result.URLs = << >>
        /\ result.Sitemaps = << >>

C10_Witness == OnlyDeadIndexes /\ result.Error # "" /\ result.Sitemaps = << >>

\* processing the candidate returned no error and at least one entry
Fruitful(url) ==
    LET r == processSitemap(web, url, 1) IN ~r.err /\ Len(r.urls) > 0

\* C11: the sitemap URLs of a result are exactly the candidates, in candidate
\* order, whose processing returned no error and at least one entry; every
\* candidate is processed, whatever became of the ones before it.
C11_ValidSitemaps ==
    (Returned /\ ~result.err) =>
        /\ result.Sitemaps = SelectSeq(result.candidates, Fruitful)
        /\ \A i \in 1..Len(result.candidates) :
              result.candidates[i] \in Range(result.fetched)

\* a candidate that failed or was empty comes before one that counted
C11_Witness ==
    /\ Returned
    /\ ~result.err
    /\ \E i, j \in 1..Len(result.candidates) :
          /\ i < j
          /\ ~Fruitful(result.candidates[i])
          /\ Fruitful(result.candidates[j])
          /\ result.Sitemaps = <<result.candidates[j]>>

\* the documents a URL refers to: the entries of the index document that is
\* fetched from it, none when the fetch fails or the body is no index
Refs(url) ==
    LET f == FetchBody(web, url)
    IN IF ~f.err /\ f.body.root = "sitemapindex" THEN Range(f.body.locs) ELSE {}

\* the URLs reached from a set of URLs along references
RECURSIVE ReachedFrom(_)
ReachedFrom(U) ==
    LET V == U \cup UNION {Refs(u) : u \in U}
    IN IF V = U THEN U ELSE ReachedFrom(V)

\* the candidates of the call under study
CallCandidates ==
    LET baseURL == BaseURL(Parse(target))
    IN Range(Candidates(getSitemapURLsFromRobots(web, baseURL), baseURL))

\* a document reached from the candidates is reached from its own references
CyclicIndexes ==
    \E u \in ReachedFrom(CallCandidates) : u \in ReachedFrom(Refs(u))

\* C15: a GetSitemap call on a target that parses returns if and only if the
\* graph of index references reached from its candidates through documents
\* fetched successfully has no cycle; with a cycle it recurses without end.
C15_ReturnsIffAcyclic ==
    ~Parse(target).err =>
        /\ scan = "returned" => ~CyclicIndexes
        /\ scan = "diverged" => CyclicIndexes

\* a call that does not return: an index that names itself is a candidate
C15_Witness ==
    /\ scan = "diverged"
    /\ \E u \in CallCandidates : u \in Refs(u)

\* the locations a walk from url finds, depth-first: those of a leaf in
\* document order, those of the children of an index in listed order, none
\* for a document that is not served or is neither
RECURSIVE LocationsOf(_, _)
RECURSIVE LocationsOfAll(_, _)
LocationsOf(url, fuel) ==
    LET f == FetchBody(web, url)
    IN IF fuel = 0 \/ f.err THEN << >>
       ELSE IF f.body.root = "sitemapindex" THEN LocationsOfAll(f.body.locs, fuel - 1)
       ELSE IF f.body.root = "urlset" THEN f.body.urls
       ELSE << >>
LocationsOfAll(urls, fuel) ==
    IF urls = << >> THEN << >>
    ELSE LocationsOf(Head(urls), fuel) \o LocationsOfAll(Tail(urls), fuel)

\* C17: the entries of a result are, in candidate order, the entries of each
\* candidate, walked depth-first: a leaf's in document order, an index's the
\* entries of its children in listed order; no entry is dropped as a
\* duplicate and none is reordered.
C17_EntriesInOrder ==
    (Returned /\ ~result.err) =>
        [i \in 1..Len(result.URLs) |-> result.URLs[i].Location]
            = LocationsOfAll(result.candidates, MaxDepth + 1)

\* robots.txt names one leaf twice: its entries are in the result twice
C17_Witness ==
    /\ Returned
    /\ Len(result.Sitemaps) = 2
    /\ result.Sitemaps[1] = result.Sitemaps[2]
    /\ \E i, j \in 1..Len(result.URLs) : i < j /\ result.URLs[i] = result.URLs[j]

\* the URLs processSitemap was called for: all fetched but robots.txt
Processed ==
    IF result.fetched = << >> THEN {} ELSE Range(Tail(result.fetched))

\* the fetch of the URL itself fails: no response, a status other than 200,
\* or a body that cannot be read
OwnFetchFails(url) ==
    LET resp == Get(web, url)
    IN resp.status = 0 \/ resp.status # 200 \/ resp.bodyErr
\* the body served at the URL is an index with an entry; is a leaf
ServesIndex(url) ==
    Get(web, url).root = "sitemapindex" /\ Get(web, url).locs # << >>
ServesLeaf(url) == Get(web, url).root = "urlset"

\* C18: processSitemap returns an error for a URL exactly when the fetch of
\* that URL fails or its body is neither an index with an entry nor a leaf;
\* an index whose fetch succeeded returns no error whatever its children
\* did, and every one of its children is processed.
C18_OwnErrorsOnly ==
    (Returned /\ ~result.err) =>
        \A url \in Processed :
            /\ processSitemap(web, url, 1).err
                  <=> (OwnFetchFails(url) \/ (~ServesIndex(url) /\ ~ServesLeaf(url)))
            /\ (~OwnFetchFails(url) /\ ServesIndex(url)) =>
                  Range(Get(web, url).locs) \subseteq Processed

\* an index was processed whose first child failed: it returned no error and
\* its second child was processed
C18_Witness ==
    /\ Returned
    /\ \E url \in Processed :
          /\ ~OwnFetchFails(url)
          /\ ServesIndex(url)
          /\ Len(Get(web, url).locs) = 2
          /\ processSitemap(web, Get(web, url).locs[1], 1).err
          /\ Get(web, url).locs[2] \in Processed
          /\ ~processSitemap(web, url, 1).err

====
